---- MODULE Spec2Model ----
(***************************************************************************)
(* Crawl engine of pyproxy-async (src/src/app/ip_get.py, class IPGet):     *)
(* the polling loop, the per-source page loop with pacing, the retried     *)
(* fetch-and-parse of one page, and the deduplicating sink push_to_pool.   *)
(* One coroutine drives everything; pc is its position, and every action   *)
(* is the code that runs between two suspension points (await).            *)
(***************************************************************************)
EXTENDS Naturals, Integers, Sequences, FiniteSets, TLC

(* ------------------------------ bounds -------------------------------- *)
MaxLen    == 2      \* longest list a parser returns
MaxPasses == 2      \* crawl passes (iterations of crawl_task's loop) explored
MaxCalls  == 2      \* entry-point calls (run, test_crawl) explored
MaxLimit  == 2      \* largest page_limit handed to test_crawl

(* -------------------------- program constants ------------------------- *)
MaxAttempts   == 3    \* budget of lib.func.retry(), first attempt included
DEFAULT_SCORE == 10   \* Config.DEFAULT_SCORE
None          == <<>> \* Python's None for an optional value <<v>>

Addr  == {"a1", "a2"}              \* canonical address strings
Items == [type : {"SiteResponseData"}, ip : Addr] \cup {[type |-> "other"]}

(* SiteData records, and the registries (sites with their parsers) the    *)
(* engine is started with: a parser that returns lists, one that always   *)
(* raises, sites without a parser, a disabled site, paced and unpaced     *)
(* sites, with and without proxy.                                         *)
Site(k, en, pg, px, iv) ==
    [key |-> k, enabled |-> en, pages |-> pg, use_proxy |-> px, page_interval |-> iv]

Registries ==
    { [configs |-> << Site("s1", TRUE, <<"p1", "p2">>, FALSE, 0),
                      Site("s2", TRUE, <<"https1", "p2">>, TRUE, 1) >>,
       parsers |-> [k \in {"s1", "s2"} |-> "parser"]],
      [configs |-> << Site("s1", TRUE, <<"p1", "p2", "p3">>, TRUE, 2),
                      Site("s2", FALSE, <<"p1">>, FALSE, 0),
                      Site("s3", TRUE, <<"p1">>, FALSE, 0) >>,
       parsers |-> [k \in {"s1", "s2"} |-> IF k = "s1" THEN "raising" ELSE "parser"]],
      [configs |-> << Site("s1", TRUE, <<"https1">>, TRUE, 0),
                      Site("s2", TRUE, <<"p1", "p2">>, FALSE, 1) >>,
       parsers |-> [k \in {"s2"} |-> "parser"]] }

VARIABLES
    _configs,     \* IPGet._configs: the registered SiteData, in registration order
    _parsers,     \* IPGet._parsers: key -> parser bound to it
    APP_ENV,      \* Config.APP_ENV
    _test_model,  \* IPGet._test_model
    pool,         \* the sorted set REDIS_KEY_IP_POOL: address -> None or <<score>>
    pc,           \* position of the coroutine
    entry,        \* the entry point called last: "none", "run", "test_crawl"
    task,         \* "running", or how that entry point ended
    calls, passes,
    siteIdx,      \* start_crawl: index of the site under the for loop
    site,         \* crawl_site: <<index>> of the SiteData of the last call (None before)
    session,      \* crawl_site: state of its aiohttp.ClientSession ("closed" once the
                  \*   async with block is left)
    opened,       \* the ClientSessions the engine opened and has not closed, each
                  \*   as the index of the site it was opened for
    workers,      \* run: number of crawl_task coroutines the last call started
    pages, pageIdx,
    attempt,      \* retry wrapper: number of the running attempt
    raised,       \* <<type, cause>> of the exception that last left the body of
                  \*   crawl_single_page in the running page visit (<<>>: none)
    outcome,      \* how the last page visit left the try block of crawl_site
    ips, ipIdx, needs_ip,
    ret,          \* <<value>> push_to_pool returned in the last page visit (None: none)
    forwarded,    \* history: the batches handed to IPChecker.push_to_pool
    zadds,        \* history: the addresses this engine inserted, in order
    visited,      \* history: sites visited in the running pass
    log,          \* history: <<"visit", k>> and <<"sleep", k>> of the running source visit
    siteEnd,      \* history: how the last crawl_site call ended
    stat,         \* history: counters of the last page visit of the source visit
                  \*   (visitfwd: forward calls of the whole source visit)
    call,         \* history: the pool at the start of the running push_to_pool call
    cycles        \* history: "pass", "end", "sleep" of the crawl_task called last

cfg   == <<_configs, _parsers, APP_ENV>>
ctl   == <<pc, entry, task, calls, passes, siteIdx, site, session, opened, pages, pageIdx,
           attempt, raised, outcome>>
sink  == <<ips, ipIdx, needs_ip, ret, pool, forwarded, zadds, call>>
hist  == <<visited, log, siteEnd, stat>>
loop  == <<cycles, workers>>
vars  == <<cfg, _test_model, ctl, sink, hist, loop>>

(* ------------------------------ helpers ------------------------------- *)
Min(a, b) == IF a < b THEN a ELSE b
Range(s)  == {s[i] : i \in 1..Len(s)}

RECURSIVE SeqsUpTo(_, _)
SeqsUpTo(S, n) ==
    IF n = 0 THEN {<<>>}
    ELSE LET R == SeqsUpTo(S, n - 1)
         IN  R \cup {Append(r, x) : r \in {q \in R : Len(q) = n - 1}, x \in S}

ZeroStat == [body |-> 0, fetch |-> 0, fail |-> 0, parse |-> 0, shown |-> 0,
             lookup |-> 0, zadd |-> 0, fwd |-> 0, visitfwd |-> 0]

Keys == {_configs[i].key : i \in 1..Len(_configs)}

(* dict.get(key): the value bound to key, or None *)
ConfigGet(key) ==
    IF key \in Keys
    THEN <<(CHOOSE i \in 1..Len(_configs) : _configs[i].key = key)>>
    ELSE None

(* a registry that falls back to some parser for an unknown key *)
ParserGet_default(key) == IF key \in DOMAIN _parsers THEN <<_parsers[key]>> ELSE <<"parser">>

ParserGet(key) == IF key \in DOMAIN _parsers THEN <<_parsers[key]>> ELSE None

(* item.to_str() of lib.structs.SiteResponseData *)
to_str(item) == item.ip

(* save_parse_result, lines 133-137 (and the loop of show_result, lines    *)
(* 144-147): keep the SiteResponseData items, as strings                   *)
RECURSIVE save_parse_result(_)
save_parse_result(result) ==
    IF result = <<>> THEN <<>>
    ELSE IF Head(result).type # "SiteResponseData"
         THEN save_parse_result(Tail(result))
         ELSE <<to_str(Head(result))>> \o save_parse_result(Tail(result))

(* site.pages if page_limit == 0 else site.pages[0:page_limit] *)
PagesOf(s, page_limit) ==
    IF page_limit = 0 THEN s.pages ELSE SubSeq(s.pages, 1, Min(page_limit, Len(s.pages)))

(* redis.zscore(key, ip): None when ip is not a member *)
zscore(ip) == pool[ip]

(* retry wrapper: is the budget used up after this attempt failed? *)
RetryExhausted(n) == n >= MaxAttempts

(* ------------------------------- Init --------------------------------- *)
Init ==
    /\ \E r \in Registries : _configs = r.configs /\ _parsers = r.parsers
    /\ APP_ENV \in {"TEST", "PROD"}
    /\ _test_model = FALSE
    /\ pool \in [Addr -> {None, <<0>>}]
    /\ pc = "idle" /\ entry = "none" /\ task = "none"
    /\ calls = 0 /\ passes = 0
    /\ siteIdx = 0 /\ site = None /\ session = "none" /\ opened = <<>> /\ workers = 0
    /\ pages = <<>> /\ pageIdx = 0 /\ attempt = 0 /\ raised = <<>> /\ outcome = "none"
    /\ ips = <<>> /\ ipIdx = 0 /\ needs_ip = <<>> /\ ret = None
    /\ forwarded = <<>> /\ zadds = <<>>
    /\ visited = <<>> /\ log = <<>> /\ siteEnd = "none" /\ stat = ZeroStat
    /\ call = None
    /\ cycles = <<>>

(* ----------------------- shared continuations ------------------------ *)
(* The locals of push_to_pool die with the call. *)
LeaveSink == ips' = <<>> /\ ipIdx' = 0 /\ needs_ip' = <<>> /\ call' = None

(* crawl_single_page left the retry wrapper with result o ("ok": returned,  *)
(* "maxretry": MaxRetryException, "error": any other exception); control    *)
(* is at the finally clause of crawl_site, line 90.                         *)
LeavePage(o) == outcome' = o /\ attempt' = 0 /\ pc' = "page_finally"

(* crawl_single_page returned *)
LeaveOk == LeavePage("ok") /\ UNCHANGED raised

(* crawl_site, lines 77-83: open the session, choose the pages. *)
EnterCrawlSite(i, page_limit) ==
    /\ site' = <<i>>
    /\ session' = "open" /\ opened' = Append(opened, i)
    /\ pages' = PagesOf(_configs[i], page_limit)
    /\ pageIdx' = 1
    /\ outcome' = "none" /\ raised' = <<>>
    /\ log' = <<>> /\ siteEnd' = "none" /\ stat' = ZeroStat /\ ret' = None
    /\ pc' = "page_loop"

(* The entry point returns (how = "stopped"/"returned") or dies of an       *)
(* exception nobody caught (how = "failed").                                *)
LeaveEntry(how) == pc' = "idle" /\ task' = how /\ siteIdx' = 0

(* ------------------------------ entry points -------------------------- *)
(* a run that starts two runners *)
Tasks_two == <<"crawl_task", "crawl_task">>

(* run, lines 40-41: tasks = [runner()] *)
Tasks == <<"crawl_task">>

(* run, lines 39-42: the tasks are started and awaited *)
Run ==
    /\ pc = "idle" /\ calls < MaxCalls
    /\ calls' = calls + 1
    /\ workers' = Len(Tasks)
    /\ entry' = "run" /\ task' = "running"
    /\ pc' = "crawl_task"
    /\ visited' = <<>>
    /\ cycles' = <<>>
    /\ UNCHANGED <<cfg, _test_model, passes, siteIdx, site, session, opened,
                   pages, pageIdx, attempt, raised, outcome, sink, log,
                   siteEnd, stat>>

(* test_crawl, lines 112-117 *)
TestCrawl(key, page_limit) ==
    /\ pc = "idle" /\ calls < MaxCalls
    /\ calls' = calls + 1
    /\ _test_model' = TRUE
    /\ entry' = "test_crawl"
    /\ visited' = <<>>
    /\ IF ConfigGet(key) = None
       THEN \* crawl_site(None): site.headers raises AttributeError
            /\ LeaveEntry("failed")
            /\ UNCHANGED <<site, session, opened, pages, pageIdx, outcome,
                           raised, log, siteEnd, stat, ret>>
       ELSE /\ task' = "running"
            /\ EnterCrawlSite(ConfigGet(key)[1], page_limit)
            /\ UNCHANGED siteIdx
    /\ UNCHANGED <<cfg, workers, cycles, passes, attempt, ips, ipIdx,
                   needs_ip, pool, forwarded, zadds, call>>

(* crawl_task, lines 45-47: top of the loop, call start_crawl *)
CrawlTask ==
    /\ pc = "crawl_task" /\ passes < MaxPasses
    /\ passes' = passes + 1
    /\ siteIdx' = 1 /\ visited' = <<>>
    /\ cycles' = Append(cycles, "pass")
    /\ pc' = "start_crawl"
    /\ UNCHANGED <<cfg, workers, _test_model, entry, task, calls, site,
                   session, opened, pages, pageIdx, attempt, raised, outcome,
                   sink, log, siteEnd, stat>>

(* crawl_task, line 50: the inter-cycle sleep ends *)
CycleSleep ==
    /\ pc = "cycle_sleep"
    /\ pc' = "crawl_task"
    /\ cycles' = Append(cycles, "sleep")
    /\ UNCHANGED <<cfg, workers, _test_model, entry, task, calls, passes,
                   siteIdx, site, session, opened, pages, pageIdx, attempt,
                   raised, outcome, sink, hist>>

(* a pass that forgets the enabled flag *)
Enabled_all(i) == TRUE

(* start_crawl, line 55: if site.enabled *)
Enabled(i) == _configs[i].enabled

(* start_crawl, lines 53-56: an enabled site is visited *)
StartCrawlVisit ==
    /\ pc = "start_crawl" /\ siteIdx <= Len(_configs)
    /\ Enabled(siteIdx)
    /\ EnterCrawlSite(siteIdx, 0)
    /\ visited' = Append(visited, siteIdx)
    /\ UNCHANGED <<cfg, workers, cycles, _test_model, entry, task, calls,
                   passes, siteIdx, attempt, ips, ipIdx, needs_ip, pool,
                   forwarded, zadds, call>>

(* start_crawl, lines 53-55: a disabled site is passed over *)
StartCrawlSkip ==
    /\ pc = "start_crawl" /\ siteIdx <= Len(_configs)
    /\ ~Enabled(siteIdx)
    /\ siteIdx' = siteIdx + 1
    /\ UNCHANGED <<cfg, workers, cycles, _test_model, pc, entry, task, calls,
                   passes, site, session, opened, pages, pageIdx, attempt,
                   raised, outcome, sink, hist>>

(* a loop that never looks at the mode *)
Stops_never == FALSE

(* crawl_task, line 48: the single-pass mode breaks out of the loop *)
Stops == APP_ENV = "TEST"

(* start_crawl returns; crawl_task, lines 48-50 *)
StartCrawlReturn ==
    /\ pc = "start_crawl" /\ siteIdx > Len(_configs)
    /\ cycles' = Append(cycles, "end")
    /\ IF Stops
       THEN LeaveEntry("stopped")
       ELSE pc' = "cycle_sleep" /\ UNCHANGED <<task, siteIdx>>
    /\ UNCHANGED <<cfg, workers, _test_model, entry, calls, passes, site,
                   session, opened, pages, pageIdx, attempt, raised, outcome,
                   sink, hist>>

(* ------------------------------ crawl_site ---------------------------- *)
(* a session closed by a statement at the end of the block, not by a      *)
(* context manager: an exception passes it by                              *)
Closes_on_return(how) == how = "returned"

(* lines 81-82: async with closes the session whichever way the block is   *)
(* left                                                                    *)
Closes(how) == TRUE

(* crawl_site left: the session is closed by its async with, the caller    *)
(* goes on (how = "returned") or the exception travels up (how = "raised") *)
(* through start_crawl and crawl_task, or through test_crawl.              *)
LeaveCrawlSite(how) ==
    /\ session' = "closed"
    /\ opened' = IF Closes(how) THEN SubSeq(opened, 1, Len(opened) - 1) ELSE opened
    /\ siteEnd' = how
    /\ IF how = "raised"
       THEN LeaveEntry("failed")
       ELSE IF entry = "run"
            THEN pc' = "start_crawl" /\ siteIdx' = siteIdx + 1 /\ UNCHANGED task
            ELSE LeaveEntry("returned")

(* a page loop without the except clause of line 87 *)
Propagates_uncaught(o) == o # "ok"

(* lines 87-89: of the ways a page visit ends, only MaxRetryException is   *)
(* caught; any other exception leaves the for loop.                        *)
Propagates(o) == o = "error"

(* a sleep placed after the try statement: the continue of line 89 skips it *)
Paces_after_try(o) == _configs[site[1]].page_interval # 0 /\ o # "maxretry"

(* lines 90-92: the finally clause sleeps whatever way o the visit ended *)
Paces(o) == _configs[site[1]].page_interval # 0

(* after the finally clause: leave with the exception, or on to line 84 *)
AfterFinally ==
    IF Propagates(outcome)
    THEN LeaveCrawlSite("raised") /\ UNCHANGED pageIdx
    ELSE /\ pageIdx' = pageIdx + 1 /\ pc' = "page_loop"
         /\ UNCHANGED <<task, siteIdx, session, opened, siteEnd>>

(* crawl_site, lines 84-86: the next page; the retry wrapper starts its    *)
(* first attempt of crawl_single_page.                                     *)
PageNext ==
    /\ pc = "page_loop" /\ pageIdx <= Len(pages)
    /\ attempt' = 1
    /\ outcome' = "none" /\ raised' = <<>>
    /\ log' = Append(log, <<"visit", pageIdx>>)
    /\ stat' = [ZeroStat EXCEPT !.visitfwd = stat.visitfwd]
    /\ ret' = None
    /\ pc' = "single_page"
    /\ UNCHANGED <<cfg, workers, cycles, _test_model, entry, task, calls,
                   passes, siteIdx, site, session, opened, pages, pageIdx,
                   ips, ipIdx, needs_ip, pool, forwarded, zadds, call,
                   visited, siteEnd>>

(* crawl_site, line 84: no page left *)
SiteDone ==
    /\ pc = "page_loop" /\ pageIdx > Len(pages)
    /\ LeaveCrawlSite("returned")
    /\ UNCHANGED <<cfg, workers, cycles, _test_model, entry, calls, passes,
                   site, pages, pageIdx, attempt, raised, outcome, sink,
                   visited, log, stat>>

(* crawl_site, lines 90-92: the finally clause *)
PageFinally ==
    /\ pc = "page_finally"
    /\ IF Paces(outcome)
       THEN /\ pc' = "page_sleep"
            /\ UNCHANGED <<task, siteIdx, session, opened, pageIdx, siteEnd>>
       ELSE AfterFinally
    /\ UNCHANGED <<cfg, workers, cycles, _test_model, entry, calls, passes,
                   site, pages, attempt, raised, outcome, sink, visited, log,
                   stat>>

(* crawl_site, line 92: asyncio.sleep(site.page_interval) is over *)
PageSleep ==
    /\ pc = "page_sleep"
    /\ log' = Append(log, <<"sleep", pageIdx>>)
    /\ AfterFinally
    /\ UNCHANGED <<cfg, workers, cycles, _test_model, entry, calls, passes,
                   site, pages, attempt, raised, outcome, sink, visited,
                   stat>>

(* --------------------------- crawl_single_page ------------------------ *)
(* a body that lets the original exception through *)
CaughtAs_unwrapped(e) == e

(* lines 108-110: whatever the try block raises leaves as RetryException *)
CaughtAs(e) == "RetryException"

(* The retry wrapper of lib.func sees exception e leave the body: a        *)
(* RetryException is retried until the budget is used up, then             *)
(* MaxRetryException is raised; any other exception goes straight up.      *)
Retry(e) ==
    IF e = "RetryException"
    THEN IF RetryExhausted(attempt)
         THEN LeavePage("maxretry")
         ELSE attempt' = attempt + 1 /\ pc' = "single_page" /\ UNCHANGED outcome
    ELSE LeavePage("error")

(* an except clause that lets an error of the program or of the           *)
(* configuration through as it is and wraps the rest                       *)
Except_selective(e) == IF e = "ValueError" THEN <<e, "">> ELSE <<CaughtAs(e), e>>

(* lines 108-110: raise RetryException() from e, as <<type, cause>> *)
Except(e) == <<CaughtAs(e), e>>

(* Exception x = <<type, cause>> leaves the body of crawl_single_page and  *)
(* reaches the retry wrapper.                                              *)
LeaveBody(x) == raised' = x /\ Retry(x[1])

ProxyOutcomes == {"proxy", "none", "raise"}
FetchOutcomes == {"text", "empty", "error", "bug"}

(* what the try block of lines 102-105 raises: the empty-body check, a     *)
(* timeout or transport failure, or an error of the program or of the      *)
(* configuration (such as a page that is no URL)                           *)
FetchError(r) ==
    IF r = "empty" THEN "EmptyResponseException"
    ELSE IF r = "error" THEN "ClientError" ELSE "ValueError"

(* lines 96-100: proxy selection, outside the try block *)
SinglePage ==
    /\ pc = "single_page"
    /\ stat' = [stat EXCEPT !.body = @ + 1]
    /\ IF _configs[site[1]].use_proxy = TRUE
       THEN \E r \in ProxyOutcomes :
               IF r = "raise"
               THEN LeaveBody(<<"ProxyError", "">>)
               ELSE pc' = "fetch" /\ UNCHANGED <<attempt, raised, outcome>>
       ELSE pc' = "fetch" /\ UNCHANGED <<attempt, raised, outcome>>
    /\ UNCHANGED <<cfg, workers, cycles, _test_model, entry, task, calls,
                   passes, siteIdx, site, session, opened, pages, pageIdx,
                   sink, visited, log, siteEnd>>

(* lines 102-106: the GET, the body read, the empty-body check *)
Fetch ==
    /\ pc = "fetch"
    /\ \E r \in FetchOutcomes :
          IF r = "text"
          THEN /\ pc' = "parse_site"
               /\ stat' = [stat EXCEPT !.fetch = @ + 1]
               /\ UNCHANGED <<attempt, raised, outcome>>
          ELSE /\ stat' = [stat EXCEPT !.fetch = @ + 1, !.fail = @ + 1]
               /\ LeaveBody(Except(FetchError(r)))
    /\ UNCHANGED <<cfg, workers, cycles, _test_model, entry, task, calls,
                   passes, siteIdx, site, session, opened, pages, pageIdx,
                   sink, visited, log, siteEnd>>

(* ------------------------------ parse_site ---------------------------- *)
(* an except clause that names the store's exception only *)
ParseSiteCatches_narrow(e) == e = "RedisError"

(* line 129: except Exception *)
ParseSiteCatches(e) == TRUE

(* An exception e is raised inside the try block of parse_site. *)
RaiseInParse(e) ==
    IF ParseSiteCatches(e) THEN LeaveOk ELSE LeaveBody(Except(e))

(* a parse_site that forgets the display mode *)
RouteToSink_always == TRUE

(* a parse_site that takes the single-pass flag for the display mode *)
RouteToSink_env == ~_test_model /\ APP_ENV # "TEST"

(* line 125: only outside display mode the result goes to the sink *)
RouteToSink == ~_test_model

(* what a bound parser can do with a response *)
ParserOutcomes(parser) ==
    {[ok |-> FALSE, result |-> <<>>]} \cup
    (IF parser = "raising" THEN {}
     ELSE [ok : {TRUE}, result : SeqsUpTo(Items, MaxLen)])

(* line 107 and lines 119-140: parser lookup, parser call, show_result or  *)
(* save_parse_result up to the first await of push_to_pool                 *)
ParseSite ==
    /\ pc = "parse_site"
    /\ LET parser == ParserGet(_configs[site[1]].key) IN
       IF parser = None
       THEN /\ LeaveOk
            /\ UNCHANGED <<stat, ips, call>>
       ELSE \E r \in ParserOutcomes(parser[1]) :
              /\ stat' = [stat EXCEPT !.parse = @ + 1,
                                      !.shown = IF r.ok /\ ~RouteToSink
                                                THEN Len(save_parse_result(r.result))
                                                ELSE 0]
              /\ IF ~r.ok
                 THEN RaiseInParse("ParserError") /\ UNCHANGED <<ips, call>>
                 ELSE IF RouteToSink /\ save_parse_result(r.result) # <<>>
                      THEN /\ ips' = save_parse_result(r.result)
                           /\ call' = <<pool>>
                           /\ pc' = "redis_share"
                           /\ UNCHANGED <<attempt, raised, outcome>>
                      ELSE LeaveOk /\ UNCHANGED <<ips, call>>
    /\ UNCHANGED <<cfg, workers, cycles, _test_model, entry, task, calls,
                   passes, siteIdx, site, session, opened, pages, pageIdx,
                   ipIdx, needs_ip, ret, pool, forwarded, zadds, visited,
                   log, siteEnd>>

(* ----------------------------- push_to_pool --------------------------- *)
(* the truthiness test "if exists": a score of 0 counts as absent *)
Exists_truthy(ip) == zscore(ip) # None /\ zscore(ip)[1] # 0

(* line 67: exists is not None *)
Exists(ip) == zscore(ip) # None

(* line 74: the value push_to_pool returns *)
ReturnValue == Len(ips)

(* a parse_site whose try block ends after the parser call *)
SaveInTry_outside == FALSE

(* lines 123-126: the call of save_parse_result is inside the try block *)
SaveInTry == TRUE

(* An exception is raised inside push_to_pool: its locals are gone, the    *)
(* exception passes save_parse_result and reaches parse_site at line 126;  *)
(* outside a try block there it would go on to the except clause of        *)
(* crawl_single_page.                                                      *)
RaiseInSink(e) ==
    /\ LeaveSink /\ UNCHANGED ret
    /\ IF SaveInTry THEN RaiseInParse(e) ELSE LeaveBody(Except(e))

(* lines 73-74: log, return; save_parse_result and parse_site return too *)
Return == ret' = <<ReturnValue>> /\ LeaveSink /\ LeaveOk

(* end of one turn of the loop of line 65, with needs_ip as it is now *)
LoopNext(needs) ==
    IF ipIdx < Len(ips)
    THEN /\ ipIdx' = ipIdx + 1 /\ pc' = "zscore" /\ needs_ip' = needs
         /\ UNCHANGED <<ips, call, ret, attempt, raised, outcome>>
    ELSE IF needs # <<>>
         THEN /\ pc' = "forward" /\ needs_ip' = needs
              /\ UNCHANGED <<ips, ipIdx, call, ret, attempt, raised, outcome>>
         ELSE Return

(* lines 63-64: with await Redis.share() as redis *)
RedisShare ==
    /\ pc = "redis_share"
    /\ \E ok \in BOOLEAN :
          IF ok
          THEN /\ needs_ip' = <<>> /\ ipIdx' = 1 /\ pc' = "zscore"
               /\ UNCHANGED <<ips, call, ret, attempt, raised, outcome>>
          ELSE RaiseInSink("RedisError")
    /\ UNCHANGED <<cfg, workers, cycles, _test_model, entry, task, calls,
                   passes, siteIdx, site, session, opened, pages, pageIdx,
                   pool, forwarded, zadds, hist>>

(* lines 66-68: the membership check of ips[ipIdx] *)
ZScore ==
    /\ pc = "zscore"
    /\ stat' = [stat EXCEPT !.lookup = @ + 1]
    /\ \E ok \in BOOLEAN :
          IF ~ok
          THEN RaiseInSink("RedisError")
          ELSE IF Exists(ips[ipIdx])
               THEN LoopNext(needs_ip)
               ELSE /\ pc' = "zadd"
                    /\ UNCHANGED <<ips, ipIdx, needs_ip, call, ret, attempt,
                                   raised, outcome>>
    /\ UNCHANGED <<cfg, workers, cycles, _test_model, entry, task, calls,
                   passes, siteIdx, site, session, opened, pages, pageIdx,
                   pool, forwarded, zadds, visited, log, siteEnd>>

(* lines 69-70: insert ips[ipIdx] with the default score, remember it *)
ZAdd ==
    /\ pc = "zadd"
    /\ \E ok \in BOOLEAN :
          IF ~ok
          THEN RaiseInSink("RedisError") /\ UNCHANGED <<pool, zadds, stat>>
          ELSE /\ pool' = [pool EXCEPT ![ips[ipIdx]] = <<DEFAULT_SCORE>>]
               /\ zadds' = Append(zadds, ips[ipIdx])
               /\ stat' = [stat EXCEPT !.zadd = @ + 1]
               /\ LoopNext(Append(needs_ip, ips[ipIdx]))
    /\ UNCHANGED <<cfg, workers, cycles, _test_model, entry, task, calls,
                   passes, siteIdx, site, session, opened, pages, pageIdx,
                   forwarded, visited, log, siteEnd>>

(* a forward call that hands over the whole input *)
Batch_input == ips

(* line 72: the list handed to IPChecker.push_to_pool *)
Batch == needs_ip

(* lines 71-74: IPChecker.push_to_pool(needs_ip) *)
Forward ==
    /\ pc = "forward"
    /\ \E ok \in BOOLEAN :
          IF ~ok
          THEN RaiseInSink("CheckerError") /\ UNCHANGED <<forwarded, stat>>
          ELSE /\ forwarded' = Append(forwarded, Batch)
               /\ stat' = [stat EXCEPT !.fwd = @ + 1, !.visitfwd = @ + 1]
               /\ Return
    /\ UNCHANGED <<cfg, workers, cycles, _test_model, entry, task, calls,
                   passes, siteIdx, site, session, opened, pages, pageIdx,
                   pool, zadds, visited, log, siteEnd>>

(* ---------------------------- specification --------------------------- *)
TestKeys == {"s1", "s2", "s3", "s9"}

Next ==
    \/ Run
    \/ \E key \in TestKeys, page_limit \in 0..MaxLimit : TestCrawl(key, page_limit)
    \/ CrawlTask
    \/ CycleSleep
    \/ StartCrawlVisit
    \/ StartCrawlSkip
    \/ StartCrawlReturn
    \/ PageNext
    \/ SiteDone
    \/ PageFinally
    \/ PageSleep
    \/ SinglePage
    \/ Fetch
    \/ ParseSite
    \/ RedisShare
    \/ ZScore
    \/ ZAdd
    \/ Forward

Spec == Init /\ [][Next]_vars

(* ============================== properties ============================ *)
NoDup(s) == \A i, j \in 1..Len(s) : i # j => s[i] # s[j]

RECURSIVE Flat(_)
Flat(ss) == IF ss = <<>> THEN <<>> ELSE Head(ss) \o Flat(Tail(ss))

IsVisit(e) == e[1] = "visit"
Visits(l)  == SelectSeq(l, IsVisit)

(* <<"visit",1>>, <<"sleep",1>>, ..., <<"visit",n>>, <<"sleep",n>> *)
FullLog(n) == [i \in 1..(2 * n) |-> IF i % 2 = 1 THEN <<"visit", (i + 1) \div 2>>
                                                ELSE <<"sleep", i \div 2>>]

InSink   == pc \in {"redis_share", "zscore", "zadd", "forward"}
Visiting == session = "open"
Paced    == site # None /\ _configs[site[1]].page_interval # 0
KeyOf    == _configs[site[1]].key

(* C1: dedup. No address is inserted twice by the engine or forwarded      *)
(* twice; only inserted addresses are forwarded; an address that was in    *)
(* the pool when a push_to_pool call began, or that the call has already   *)
(* put in its batch, does not enter the batch; the forward call is reached *)
(* only when some input address was not pooled when the call began.        *)
C1_Dedup ==
    /\ NoDup(zadds)
    /\ NoDup(Flat(forwarded))
    /\ Range(Flat(forwarded)) \subseteq Range(zadds)
    /\ InSink => /\ NoDup(needs_ip)
                 /\ \A a \in Range(needs_ip) : call[1][a] = None
    /\ pc = "forward" => \E i \in 1..Len(ips) : call[1][ips[i]] = None

C1_Witness ==
    /\ pc = "forward" /\ ips = <<"a1", "a1">> /\ needs_ip = <<"a1">>
    /\ pool["a2"] # None

(* C2: every address the engine inserted is in a forwarded batch, or is in *)
(* the batch of the push_to_pool call that is still running.               *)
C2_InsertedIsForwarded ==
    \A a \in Range(zadds) :
        \/ a \in Range(Flat(forwarded))
        \/ InSink /\ a \in Range(needs_ip)

(* C3: push_to_pool returns the number of addresses it newly inserted.     *)
C3_ReturnsNewCount == ret # None => ret[1] = stat.zadd

(* C4: retry budget. The body of crawl_single_page and the fetch run at    *)
(* most MaxAttempts times in one page visit; MaxRetryException means the   *)
(* body ran exactly MaxAttempts times; a visit whose every attempt failed  *)
(* in the fetch ends with MaxRetryException after exactly MaxAttempts.     *)
C4_RetryBudget ==
    /\ stat.body <= MaxAttempts /\ stat.fetch <= MaxAttempts
    /\ outcome = "maxretry" => stat.body = MaxAttempts
    /\ (outcome # "none" /\ stat.fail = stat.body) =>
           (outcome = "maxretry" /\ stat.body = MaxAttempts)

C4_Witness == outcome = "maxretry" /\ stat.fail = MaxAttempts /\ pc = "page_finally"

(* C5: pacing. In a visit of a source with a nonzero page_interval, the    *)
(* visits and sleeps alternate: page k is first fetched after the sleeps   *)
(* of pages 1..k-1 and before its own, and when crawl_site is left, by     *)
(* return or by exception, every visited page has had its one sleep.       *)
C5_Pacing ==
    Paced =>
       /\ (Visiting /\ pc = "page_loop") => log = FullLog(pageIdx - 1)
       /\ (Visiting /\ pc # "page_loop") =>
              log = Append(FullLog(pageIdx - 1), <<"visit", pageIdx>>)
       /\ (~Visiting /\ siteEnd = "returned") => log = FullLog(Len(pages))
       /\ (~Visiting /\ siteEnd = "raised") => log = FullLog(pageIdx)

C5_Witness ==
    /\ Paced /\ ~Visiting /\ siteEnd = "raised" /\ pageIdx = 2
    /\ log = FullLog(2)

(* C6: MaxRetryException ends one page only. Pages are visited in order;   *)
(* crawl_site is left by exception only when the last page visit ended in  *)
(* an exception other than MaxRetryException; when it returns, every page  *)
(* was visited; after a page ended in MaxRetryException the session stays  *)
(* open until the page loop is over; the forwarded batches only grow.      *)
C6_State ==
    /\ Visits(log) = [k \in 1..Len(Visits(log)) |-> <<"visit", k>>]
    /\ siteEnd = "raised" => outcome = "error"
    /\ siteEnd = "returned" => Len(Visits(log)) = Len(pages)
    /\ (outcome = "maxretry" /\ pc \in {"page_finally", "page_sleep"}) => Visiting
    /\ (outcome = "maxretry" /\ pc = "page_loop") =>
           (Visiting /\ Len(Visits(log)) = pageIdx - 1)

C6_Step ==
    /\ SubSeq(forwarded', 1, Len(forwarded)) = forwarded
    /\ (outcome = "maxretry" /\ pc \in {"page_finally", "page_sleep"}) =>
           (pc' = "page_sleep" \/ (pc' = "page_loop" /\ pageIdx' = pageIdx + 1))

C6_SkipOnlyThePage == [](C6_State) /\ [][C6_Step]_vars

C6_Witness ==
    /\ entry = "run" /\ pc = "start_crawl" /\ siteIdx = 2
    /\ siteEnd = "returned" /\ outcome = "maxretry" /\ forwarded # <<>>
    /\ Len(pages) = 2

(* C7: source isolation. When a crawl pass of run is over, by return or by *)
(* exception, every enabled source was visited in it.                      *)
PassOver ==
    /\ entry = "run" /\ passes > 0
    /\ pc = "cycle_sleep" \/ (pc = "idle" /\ task \in {"stopped", "failed"})

C7_SourceIsolation ==
    PassOver => \A i \in 1..Len(_configs) : _configs[i].enabled => i \in Range(visited)

(* C8: parser isolation. While a source whose parser always raises is      *)
(* visited, the sink is never entered and nothing is looked up, inserted   *)
(* or forwarded; the parser runs at most once per page visit and the visit *)
(* then ends as a success; crawl_site is never left because of it.         *)
C8_ParserIsolation ==
    (site # None /\ KeyOf \in DOMAIN _parsers /\ _parsers[KeyOf] = "raising") =>
       /\ Visiting => (~InSink /\ stat.lookup = 0 /\ stat.zadd = 0 /\ stat.fwd = 0)
       /\ (Visiting /\ stat.parse > 0) => (stat.parse = 1 /\ outcome = "ok")
       /\ siteEnd = "raised" => stat.parse = 0

C8_Witness ==
    /\ site # None /\ KeyOf \in DOMAIN _parsers /\ _parsers[KeyOf] = "raising"
    /\ Visiting /\ pageIdx = 2 /\ stat.parse = 1 /\ outcome = "ok"

(* C9: silent no-op. While a source without a parser is visited, the sink  *)
(* is never entered, nothing is parsed, looked up, inserted or forwarded;  *)
(* a fetch that returned a body is the last attempt of its page visit and  *)
(* the visit ends as a success.                                            *)
C9_SilentNoOp ==
    (Visiting /\ KeyOf \notin DOMAIN _parsers) =>
       /\ ~InSink
       /\ stat.parse = 0 /\ stat.lookup = 0 /\ stat.zadd = 0 /\ stat.fwd = 0
       /\ stat.fetch > stat.fail =>
             /\ stat.fetch = stat.fail + 1 /\ stat.body = stat.fetch
             /\ pc = "parse_site" \/ outcome = "ok"

C9_Witness ==
    /\ Visiting /\ KeyOf \notin DOMAIN _parsers
    /\ stat.fetch = 2 /\ stat.fail = 1 /\ outcome = "ok"

(* C10: display mode. From a state with _test_model set, no step enters    *)
(* the sink, looks an address up, changes the pool or forwards a batch.    *)
C10_Step ==
    _test_model =>
       /\ pool' = pool /\ forwarded' = forwarded /\ zadds' = zadds
       /\ stat'.lookup = 0 \/ stat'.lookup = stat.lookup
       /\ ~InSink'

C10_DisplayMode == [][C10_Step]_vars

C10_Witness == _test_model /\ entry = "test_crawl" /\ stat.shown = 2 /\ outcome = "ok"

(* C11: single-pass mode. With APP_ENV = TEST a crawl_task starts at most  *)
(* one pass and never sleeps between cycles; once the pass has returned    *)
(* the task has stopped; and in either mode the choice between stopping    *)
(* and sleeping is made only in the step in which start_crawl returns.     *)
CycleLog(n) == [i \in 1..n |-> IF i % 3 = 1 THEN "pass"
                               ELSE IF i % 3 = 2 THEN "end" ELSE "sleep"]

C11_State ==
    (APP_ENV = "TEST" /\ entry = "run") =>
       /\ pc # "cycle_sleep"
       /\ cycles \in {<<>>, <<"pass">>, <<"pass", "end">>}
       /\ cycles = <<"pass", "end">> <=> task = "stopped"
       /\ task = "stopped" => pc = "idle"

C11_Step ==
    (task' = "stopped" /\ task # "stopped") \/ (pc' = "cycle_sleep" /\ pc # "cycle_sleep")
       => (pc = "start_crawl" /\ siteIdx > Len(_configs) /\ session # "open")

C11_SinglePass == [](C11_State) /\ [][C11_Step]_vars

C11_Witness ==
    /\ APP_ENV = "TEST" /\ entry = "run" /\ task = "stopped"
    /\ cycles = <<"pass", "end">> /\ Len(visited) = 2 /\ forwarded # <<>>

(* C12: continuous mode. With APP_ENV = PROD a crawl_task started by run    *)
(* never ends: it neither stops nor dies of an exception.                  *)
C12_NeverTerminates == (APP_ENV = "PROD" /\ entry = "run") => task = "running"

(* C13: ordering. In a pass of run the sources visited so far are the      *)
(* first enabled sources in registration order, and all of them once       *)
(* start_crawl has returned; the source under visit is enabled and is the  *)
(* last one entered; its pages are all the configured pages and are        *)
(* visited in their order; in a paced source a page other than the first   *)
(* is being fetched only after the sleep of the page before it.            *)
IsEnabled(i) == _configs[i].enabled
EnabledSeq   == SelectSeq([i \in 1..Len(_configs) |-> i], IsEnabled)
InPass       == entry = "run" /\ cycles # <<>> /\ cycles[Len(cycles)] = "pass"
InBody       == pc \in {"single_page", "fetch", "parse_site"} \/ InSink

C13_Ordering ==
    /\ entry = "run" =>
          /\ Len(visited) <= Len(EnabledSeq)
          /\ visited = SubSeq(EnabledSeq, 1, Len(visited))
    /\ (entry = "run" /\ cycles # <<>> /\ cycles[Len(cycles)] \in {"end", "sleep"}) =>
          visited = EnabledSeq
    /\ (InPass /\ Visiting) =>
          /\ visited # <<>> /\ site = <<visited[Len(visited)]>>
          /\ _configs[site[1]].enabled
          /\ pages = _configs[site[1]].pages
    /\ Visiting =>
          /\ Visits(log) = [k \in 1..Len(Visits(log)) |-> <<"visit", k>>]
          /\ InBody => log[Len(log)] = <<"visit", pageIdx>>
          /\ (InBody /\ Paced /\ pageIdx > 1) =>
                log[Len(log) - 1] = <<"sleep", pageIdx - 1>>

C13_Witness ==
    /\ InPass /\ Len(_configs) = 3 /\ visited = <<1, 3>> /\ pc = "fetch"
    /\ passes = 2

(* C14 as claimed: in a pass of run, IPChecker.push_to_pool is called at   *)
(* most once during one source visit.                                      *)
C14_OncePerSource == entry = "run" => stat.visitfwd <= 1

(* C14 as amended: IPChecker.push_to_pool is called at most once per page  *)
(* visit, and the batch it gets is exactly the addresses inserted during   *)
(* that page visit, at least one, in the order of their insertion.         *)
C14_OncePerPage ==
    /\ stat.fwd <= 1
    /\ stat.fwd = 1 =>
          /\ stat.zadd >= 1 /\ forwarded # <<>>
          /\ forwarded[Len(forwarded)] =
                SubSeq(zadds, Len(zadds) - stat.zadd + 1, Len(zadds))

C14_Witness ==
    /\ entry = "run" /\ Visiting /\ pageIdx = 2
    /\ stat.visitfwd = 2 /\ stat.fwd = 1 /\ Len(forwarded) = 2

(* C15: every exception that leaves the body of crawl_single_page is a    *)
(* RetryException that carries the original exception as its cause,        *)
(* whichever of the steps (proxy selection, request, body check, parsing)  *)
(* failed.                                                                 *)
C15_AlwaysRetryException ==
    raised # <<>> => (raised[1] = "RetryException" /\ raised[2] # "")

(* C16 as claimed: an error of the program or of the configuration that   *)
(* occurs during a page's fetch-and-parse propagates at once: the page     *)
(* visit ends with that error and the operation is not invoked again.      *)
C16_PropagatesImmediately ==
    (raised # <<>> /\ "ValueError" \in {raised[1], raised[2]}) =>
       (outcome = "error" /\ attempt = 0 /\ ~InBody)

(* C16 as amended: what propagates at once is an exception that leaves the *)
(* body as something other than RetryException (the operation is not       *)
(* invoked again); every exception raised inside the try block, an error   *)
(* of the program or of the configuration included, leaves as              *)
(* RetryException, uses up one attempt and is retried within the budget.   *)
C16_ClassifiedByType ==
    /\ (stat.body > 0 /\ stat.fail = stat.body) =>
          (outcome # "error" /\ raised # <<>> /\ raised[1] = "RetryException")
    /\ raised # <<>> =>
       /\ raised[1] # "RetryException" =>
             (outcome = "error" /\ attempt = 0 /\ ~InBody /\ stat.fail < stat.body)
       /\ raised[2] \in {"ValueError", "ClientError", "EmptyResponseException"} =>
             /\ raised[1] = "RetryException"
             /\ outcome # "error"
             /\ stat.fail \in 1..MaxAttempts
             /\ pc = "single_page" => attempt = stat.fail + 1
             /\ outcome = "maxretry" => stat.body = MaxAttempts

C16_Witness ==
    /\ raised = <<"RetryException", "ValueError">>
    /\ pc = "single_page" /\ attempt = 2 /\ stat.body = 1

(* C17: under run there is one worker. One crawl_task is started, and a    *)
(* coroutine that awaits every call has one fetch in flight at most, so    *)
(* the fetches in flight never exceed the workers; at most one session is  *)
(* open, and the fetch in flight is on it. The cycle of crawl_task is      *)
(* pass, end of pass, sleep, in turn: a pass starts only at the start of   *)
(* the task or after the sleep that follows the end of the previous pass,  *)
(* when no source visit and no sink call of that pass is left running.     *)
PassIdle ==
    /\ opened = <<>> /\ session # "open"
    /\ ips = <<>> /\ needs_ip = <<>> /\ call = None /\ attempt = 0

C17_State ==
    entry = "run" =>
       /\ workers = 1
       /\ Len(opened) <= 1
       /\ InBody => (opened = <<site[1]>> /\ InPass)
       /\ cycles = CycleLog(Len(cycles))
       /\ pc \in {"idle", "crawl_task", "cycle_sleep", "start_crawl"} => PassIdle
       /\ pc = "cycle_sleep" <=>
             (cycles # <<>> /\ cycles[Len(cycles)] = "end" /\ task = "running")

C17_Step ==
    (entry' = "run" /\ cycles' = Append(cycles, "pass")) =>
       /\ PassIdle /\ pc = "crawl_task" /\ siteIdx' = 1
       /\ cycles = <<>> \/ cycles[Len(cycles)] = "sleep"

C18_State ==
    /\ Len(opened) <= 1
    /\ session = "open" <=> opened # <<>>
    /\ session = "open" =>
          /\ opened = <<site[1]>> /\ siteEnd = "none" /\ task = "running"
          /\ entry = "run" => (visited # <<>> /\ visited[Len(visited)] = site[1])
    /\ (InBody \/ pc \in {"page_loop", "page_finally", "page_sleep"}) =>
          session = "open"
    /\ siteEnd \in {"returned", "raised"} => session = "closed"

C18_Step ==
    /\ (session = "open" /\ session' # "open") =>
          /\ session' = "closed" /\ opened' = <<>>
          /\ siteEnd' \in {"returned", "raised"}
          /\ siteEnd' = "raised" <=> Propagates(outcome)
    /\ (session # "open" /\ session' = "open") =>
          /\ opened = <<>> /\ opened' = <<site'[1]>> /\ pc' = "page_loop"
    /\ opened' # opened => session' # session

C18_SessionPerVisit == [](C18_State) /\ [][C18_Step]_vars

C18_Witness ==
    /\ siteEnd = "raised" /\ session = "closed" /\ opened = <<>>
    /\ outcome = "error" /\ pageIdx = 1 /\ calls = 2

(* C19: display mode is one-way and independent of the single-pass flag.  *)
(* test_crawl sets _test_model and no step clears it; while it is set no   *)
(* pass, a pass of run included, inserts or forwards anything; and what    *)
(* decides between display and sink is _test_model alone: whatever APP_ENV *)
(* is, a result is displayed only with _test_model set and the sink is     *)
(* entered only with _test_model clear.                                    *)
C19_State ==
    /\ entry = "test_crawl" => _test_model
    /\ stat.shown > 0 => _test_model
    /\ InSink => ~_test_model
    /\ ~_test_model => entry \in {"none", "run"}

C19_Step ==
    /\ _test_model => _test_model'
    /\ _test_model' # _test_model => (pc = "idle" /\ entry' = "test_crawl")
    /\ _test_model => (forwarded' = forwarded /\ zadds' = zadds /\ pool' = pool)
    /\ (pc = "parse_site" /\ pc' = "redis_share") => ~_test_model

C19_OneWayDisplay == [](C19_State) /\ [][C19_Step]_vars

(* a pass of run that displays, after an earlier test_crawl *)
C19_Witness ==
    /\ _test_model /\ entry = "run" /\ InPass
    /\ stat.shown >= 1 /\ outcome = "ok" /\ forwarded = <<>>

(* the converse case: single-pass mode without test_crawl forwards *)
C19_ForwardsInTestEnv ==
    /\ APP_ENV = "TEST" /\ ~_test_model /\ entry = "run"
    /\ stat.fwd = 1 /\ forwarded # <<>>

(* C20: once a fetch of the page visit has returned a non-empty body, the *)
(* page is not fetched again in that visit and its parser is called at     *)
(* most once; an exception of the parser, of the pool store or of the      *)
(* forward call is swallowed in parse_site: the retry wrapper sees none,   *)
(* no attempt is added, and the page visit ends as a success.              *)
GotBody == stat.fetch > stat.fail

C20_State ==
    GotBody =>
       /\ stat.fetch = stat.fail + 1 /\ stat.body = stat.fetch
       /\ stat.parse <= 1
       /\ pc = "parse_site" \/ InSink \/ outcome = "ok"
       /\ outcome \in {"none", "ok"}
       /\ InBody => (attempt = stat.body /\ outcome = "none")
       /\ raised # <<>> => (raised[1] = "RetryException" /\ stat.fail > 0)

C20_Step ==
    (GotBody /\ InBody) =>
       /\ stat'.fetch = stat.fetch /\ stat'.fail = stat.fail
       /\ stat'.body = stat.body /\ raised' = raised
       /\ InBody' \/ (pc' = "page_finally" /\ outcome' = "ok")
       /\ pc' \notin {"single_page", "fetch"}

C20_NoRefetch == [](C20_State) /\ [][C20_Step]_vars

(* the store failed after a retried fetch had brought the body *)
C20_Witness ==
    /\ GotBody /\ stat.fail = 1 /\ stat.parse = 1 /\ stat.lookup = 2
    /\ stat.zadd = 1 /\ stat.fwd = 0 /\ ret = None
    /\ outcome = "ok" /\ pc = "page_finally"

====
